---- MODULE Spec2Model ----
(***************************************************************************)
(* Model of the admin dashboard's ResumeModal component                    *)
(* (src/src/components/ResumeModal/ResumeModal.jsx), of the list fetching  *)
(* of its ManageVacancies and Applicants pages, of the PostVacancy form,   *)
(* and of AuthProvider with the Login page.                                *)
(*                                                                         *)
(* Strings are sequences of one-character strings, so that startsWith,     *)
(* split, pop and toLowerCase are computed character by character.         *)
(* A JavaScript value that may be null is a record: Null, or Str(s).       *)
(*                                                                         *)
(* React is modelled at the granularity of its commits: a render commits   *)
(* the element tree computed from the props and the state of that render,  *)
(* the passive effects of that commit run next (with the values that       *)
(* render closed over), and the state updates they enqueue cause the next  *)
(* render.  Event handlers (promise callbacks, iframe events, the parent   *)
(* changing props) run when no render or effect is outstanding.            *)
(***************************************************************************)
EXTENDS Naturals, Integers, Sequences, FiniteSets, TLC

VARIABLES
  phase,        \* "unmounted", "effects", "render" or "idle"
  inst,         \* number of the mounted component instance (0: none yet)
  resumeUrl,    \* the resumeUrl prop of the last render (<<>>: absent)
  isPDF,        \* useState(true)
  loadError,    \* useState(false)
  docxContent,  \* useState(null)
  loadingDocx,  \* useState(false)
  docxError,    \* useState(null)
  deps1,        \* dependency array of the classification effect at the last render
  deps2,        \* dependency array of the DOCX effect at the last render
  pending,      \* the effects the last commit scheduled
  view,         \* the committed element tree
  iframeNav,    \* the committed iframe has a navigation whose load/error event is due
  tasks,        \* fetch-and-convert promise chains in flight
  changes,      \* mounts and reference changes so far
  nFetch,       \* fetches started since the reference last changed
  failedRef,    \* an attempt for the current reference has ended in failure
  empties,      \* conversions that have ended with an empty result so far
  cin,          \* input path of the classification check
  cbase,        \* its url prop (base URL)
  cout          \* its result

\* ManageVacancies (src/unnamed/part_001)
VARIABLES
  mvVariant,      \* which of the two source files of the page: 1 or 2
  mvPhase,        \* "unmounted", "render" or "idle"
  mvFilters,      \* useState({search: '', ...})
  mvPage,         \* currentPage
  mvPagination,   \* useState(null)
  mvVacancies,    \* the ids of the vacancies in the vacancies state
  mvSelected,     \* selectedVacancies
  mvLoading,      \* useState(true)
  mvBulkLoading,  \* useState(false)
  mvDeps,         \* what the effects' dependency arrays held at the last commit
  mvReqs,         \* HTTP requests in flight
  mvSeq,          \* requests sent so far
  mvEvents,       \* user events so far
  mvServer        \* the ids of the vacancies the server holds

mvVars == <<mvVariant, mvPhase, mvFilters, mvPage, mvPagination, mvVacancies,
            mvSelected, mvLoading, mvBulkLoading, mvDeps, mvReqs, mvSeq,
            mvEvents, mvServer>>

\* Applicants (src/src/pages/Applicants/Applicants.jsx)
VARIABLES
  apPhase,        \* "unmounted", "render" or "idle"
  apViewMode,     \* 'applications' or 'candidates'
  apFilter,       \* useState({jobId: "", ...})
  apPagination,   \* useState({currentPage: 1, totalPages: 1, ...})
  apApplications, \* the ids of the applications in the applications state
  apCandidates,   \* the ids of the candidates in the candidates state
  apLoading,      \* useState(true)
  apDeps,         \* what the effects' dependency arrays held at the last commit
  apReqs,         \* list requests in flight
  apSeq,          \* requests sent so far
  apEvents,       \* user events so far
  apLastSent      \* the list request sent last

apVars == <<apPhase, apViewMode, apFilter, apPagination, apApplications,
            apCandidates, apLoading, apDeps, apReqs, apSeq, apEvents,
            apLastSent>>

\* PostVacancy (src/src/pages/PostVacancy/PostVacancy.jsx)
VARIABLES
  pvPhase,        \* "unmounted" or "idle"
  pvData,         \* useState({jobTitle: "", ...}): the value of each property
  pvSkillInput,   \* useState("")
  pvReqs,         \* POST requests in flight
  pvSeq,          \* requests sent so far
  pvEvents,       \* user events so far
  pvToast         \* the toast shown last

pvVars == <<pvPhase, pvData, pvSkillInput, pvReqs, pvSeq, pvEvents, pvToast>>

\* AuthProvider (src/src/context/AuthContext.js) and Login
\* (src/src/pages/Login/Login.jsx)
VARIABLES
  auPhase,        \* "unmounted", "effects" or "idle"
  auAuth,         \* useState(() => ...): null or { token }
  auStorage,      \* localStorage.getItem('token')
  auConsole,      \* 'Invalid token format received' has been logged
  lgUsername,     \* useState('')
  lgPassword,     \* useState('')
  lgError,        \* useState('')
  lgReqs,         \* login requests in flight
  lgSeq           \* login requests sent so far

auVars == <<auPhase, auAuth, auStorage, auConsole, lgUsername, lgPassword,
            lgError, lgReqs, lgSeq>>

pageVars == <<mvVars, apVars, pvVars, auVars>>

vars == <<phase, inst, resumeUrl, isPDF, loadError, docxContent, loadingDocx,
          docxError, deps1, deps2, pending, view, iframeNav, tasks, changes,
          nFetch, failedRef, empties, cin, cbase, cout, pageVars>>

\* ResumeModal and the classification check
modalVars == <<phase, inst, resumeUrl, isPDF, loadError, docxContent, loadingDocx,
               docxError, deps1, deps2, pending, view, iframeNav, tasks, changes,
               nFetch, failedRef, empties, cin, cbase, cout>>

compVars == <<phase, inst, resumeUrl, isPDF, loadError, docxContent, loadingDocx,
              docxError, deps1, deps2, pending, view, iframeNav, tasks, changes,
              nFetch, failedRef, empties>>

(***************************************************************************)
(* Bounds                                                                  *)
(***************************************************************************)
\* mounts plus reference changes in one behaviour
MaxChanges == 2
\* conversions that end with an empty result (empty HTML or empty message)
MaxEmpty == 1
\* length of the generated file-name stems of the classification check
MaxStem == 1

(***************************************************************************)
(* JavaScript values and strings                                           *)
(***************************************************************************)
Null == [t |-> "null"]
Str(s) == [t |-> "string", s |-> s]
\* JavaScript truthiness of a value that is null or a string
Truthy(v) == v.t = "string" /\ v.s # <<>>

Lower == [c \in {"P", "D", "F", "O", "C", "X", "T"} |->
            CASE c = "P" -> "p" [] c = "D" -> "d" [] c = "F" -> "f"
              [] c = "O" -> "o" [] c = "C" -> "c" [] c = "X" -> "x"
              [] c = "T" -> "t"]
ToLowerChar(c) == IF c \in DOMAIN Lower THEN Lower[c] ELSE c
\* String.prototype.toLowerCase
ToLowerCase(s) == [i \in 1..Len(s) |-> ToLowerChar(s[i])]

\* String.prototype.startsWith
StartsWith(s, p) == Len(s) >= Len(p) /\ SubSeq(s, 1, Len(p)) = p

\* String.prototype.split(sep) for a one-character separator
RECURSIVE Split(_, _)
Split(s, sep) ==
  IF \E i \in 1..Len(s) : s[i] = sep
  THEN LET i == CHOOSE j \in 1..Len(s) :
                  s[j] = sep /\ \A k \in 1..(j - 1) : s[k] # sep
       IN <<SubSeq(s, 1, i - 1)>> \o Split(SubSeq(s, i + 1, Len(s)), sep)
  ELSE <<s>>

\* Array.prototype.pop: the last element
Pop(a) == a[Len(a)]

UploadsPrefix == <<"u", "p", "l", "o", "a", "d", "s", "/">>
ResumeName == <<"r", "e", "s", "u", "m", "e">>
PdfExt == <<"p", "d", "f">>
DocxExt == <<"d", "o", "c", "x">>
DocExt == <<"d", "o", "c">>

(***************************************************************************)
(* Derived values of a render (ResumeModal.jsx lines 12-20)                *)
(***************************************************************************)
\* (variant: the storage prefix prepended unconditionally)
NormalizedUrlAlwaysPrefixed(r) == IF r # <<>> THEN UploadsPrefix \o r ELSE <<>>
NormalizedUrl(r) ==
  IF r # <<>> /\ StartsWith(r, UploadsPrefix) THEN r
  ELSE IF r # <<>> THEN UploadsPrefix \o r ELSE <<>>

FullResumeUrl(url, r) == IF r # <<>> THEN url \o <<"/">> \o NormalizedUrl(r) ELSE <<>>

FileName(r) ==
  LET last == Pop(Split(r, "/"))
  IN IF last # <<>> THEN last ELSE ResumeName

\* (variant: the extension compared as written)
FileExtensionCaseSensitive(r) == Pop(Split(FileName(r), "."))
FileExtension(r) == ToLowerCase(Pop(Split(FileName(r), ".")))

DetectedIsPDF(r) == FileExtension(r) = PdfExt
IsDocx(r) == FileExtension(r) = DocxExt \/ FileExtension(r) = DocExt

(***************************************************************************)
(* Inputs of the component model                                           *)
(***************************************************************************)
\* the url prop (base URL of the backend)
Url == <<"h">>
NoPath == <<>>
DocA == <<"a", ".", "d", "o", "c", "x">>
DocB == <<"b", ".", "d", "o", "c">>
\* a path that already carries the storage prefix
PdfC == UploadsPrefix \o <<"c", ".", "p", "d", "f">>
\* a path whose last segment is empty
DirD == <<"d", "/">>
Paths == {DocA, DocB, PdfC, DirD}

\* Error('Failed to fetch DOCX file'), line 41
FailedToFetchMsg == <<"Failed to fetch DOCX file">>
\* message of the TypeError a rejected fetch carries
NetworkMsg == <<"network">>
\* message of an error thrown by the conversion
ConvertMsg == <<"convert">>
\* the markup mammoth produces for the document stored at u
HtmlOf(u) == <<"html">> \o u

(***************************************************************************)
(* Component state (lines 6-10)                                            *)
(***************************************************************************)
St == [isPDF |-> isPDF, loadError |-> loadError, docxContent |-> docxContent,
       loadingDocx |-> loadingDocx, docxError |-> docxError]

InitialState == [isPDF |-> TRUE, loadError |-> FALSE, docxContent |-> Null,
                 loadingDocx |-> FALSE, docxError |-> Null]

(***************************************************************************)
(* The element tree a render returns (lines 78-185)                        *)
(***************************************************************************)
\* isPDF && !loadError, line 106
IframeShown(st) == st.isPDF /\ ~st.loadError
\* the DOCX preview container, line 130
DocxBranch(r, st) == ~IframeShown(st) /\ IsDocx(r)
\* line 133
LoadingShown(r, st) == DocxBranch(r, st) /\ st.loadingDocx
\* line 138
ErrorPanelShown(r, st) ==
  DocxBranch(r, st) /\ ~st.loadingDocx /\ Truthy(st.docxError)
\* (variant: the converted document shown whatever docxError holds)
HtmlShownNoPrecedence(r, st) ==
  DocxBranch(r, st) /\ ~st.loadingDocx /\ Truthy(st.docxContent)
\* line 151
HtmlShown(r, st) ==
  DocxBranch(r, st) /\ ~st.loadingDocx /\ ~Truthy(st.docxError)
    /\ Truthy(st.docxContent)
\* line 158
UnsupportedShown(r, st) == ~IframeShown(st) /\ ~IsDocx(r)

NullView ==
  [rendered |-> FALSE, link |-> FALSE, href |-> <<>>, download |-> <<>>,
   iframe |-> FALSE, loading |-> FALSE, errorPanel |-> FALSE, html |-> FALSE,
   unsupported |-> FALSE, text |-> Null]

\* (variant: the link offered only beside a preview)
HeaderLinkOnlyWithPreview(r, st) == IframeShown(st) \/ HtmlShown(r, st)
\* the header's download anchor, lines 90-97
HeaderLink(r, st) == TRUE

ViewOf(r, st) ==
  IF r = <<>> THEN NullView
  ELSE [rendered |-> TRUE,
        link |-> HeaderLink(r, st),
        href |-> FullResumeUrl(Url, r),
        download |-> FileName(r),
        iframe |-> IframeShown(st),
        loading |-> LoadingShown(r, st),
        errorPanel |-> ErrorPanelShown(r, st),
        html |-> HtmlShown(r, st),
        unsupported |-> UnsupportedShown(r, st),
        text |-> IF ErrorPanelShown(r, st) THEN st.docxError
                 ELSE IF HtmlShown(r, st) THEN st.docxContent
                 ELSE Null]

(***************************************************************************)
(* Effects                                                                 *)
(***************************************************************************)
Deps1(r) == <<DetectedIsPDF(r), r>>
Deps2(r, st) == <<IsDocx(r), FullResumeUrl(Url, r), st.docxContent, st.docxError>>

\* the state updates of the classification effect, lines 23-30
ClassificationEffect(r, st) ==
  IF r # <<>>
  THEN [st EXCEPT !.isPDF = DetectedIsPDF(r), !.loadError = FALSE,
                  !.docxContent = Null, !.docxError = Null]
  ELSE st

\* the condition under which the DOCX effect starts a fetch, line 34
DocxEffectFires(r, st) ==
  IsDocx(r) /\ FullResumeUrl(Url, r) # <<>>
    /\ ~Truthy(st.docxContent) /\ ~Truthy(st.docxError)

\* the promise chain started at line 38, by the instance and for the reference
\* of the render whose effect starts it
NewTask(r) ==
  LET same == {t \in tasks : t.inst = inst /\ t.ref = r}
      k == CHOOSE n \in 1..(Cardinality(same) + 1) : \A t \in same : t.k # n
  IN [inst |-> inst, ref |-> r, url |-> FullResumeUrl(Url, r),
      stage |-> "fetch", k |-> k]

(***************************************************************************)
(* Initial state: nothing is mounted                                       *)
(***************************************************************************)
InitComponent ==
  /\ phase = "unmounted"
  /\ inst = 0
  /\ resumeUrl = NoPath
  /\ isPDF = InitialState.isPDF
  /\ loadError = InitialState.loadError
  /\ docxContent = InitialState.docxContent
  /\ loadingDocx = InitialState.loadingDocx
  /\ docxError = InitialState.docxError
  /\ deps1 = <<>>
  /\ deps2 = <<>>
  /\ pending = {}
  /\ view = NullView
  /\ iframeNav = FALSE
  /\ tasks = {}
  /\ changes = 0
  /\ nFetch = 0
  /\ failedRef = FALSE
  /\ empties = 0

\* the pages are not mounted
MvUnmounted ==
  /\ mvVariant = 1
  /\ mvPhase = "unmounted"
  /\ mvFilters = <<>>
  /\ mvPage = 1
  /\ mvPagination = Null
  /\ mvVacancies = {}
  /\ mvSelected = {}
  /\ mvLoading = TRUE
  /\ mvBulkLoading = FALSE
  /\ mvDeps = Null
  /\ mvReqs = {}
  /\ mvSeq = 0
  /\ mvEvents = 0
  /\ mvServer = {}
ApUnmounted ==
  /\ apPhase = "unmounted"
  /\ apViewMode = "applications"
  /\ apFilter = <<>>
  /\ apPagination = Null
  /\ apApplications = {}
  /\ apCandidates = {}
  /\ apLoading = TRUE
  /\ apDeps = Null
  /\ apReqs = {}
  /\ apSeq = 0
  /\ apEvents = 0
  /\ apLastSent = Null
(***************************************************************************)
(* PostVacancy: the values of the form and its initial state               *)
(***************************************************************************)
Bool(b) == [t |-> "boolean", b |-> b]
Num(n) == [t |-> "number", n |-> n]
Arr(a) == [t |-> "array", a |-> a]
Undefined == [t |-> "undefined"]

\* the properties of the object useState is given
DataFields ==
  {"jobTitle", "description", "qualification", "industry", "client",
   "showClientToCandidate", "isPromoted", "displayOrder", "skills", "city",
   "state", "country", "isRemote", "employmentType", "experienceLevel",
   "salaryMin", "salaryMax", "isNegotiable", "applicationDeadline",
   "numberOfOpenings", "status"}

InitialData ==
  [f \in DataFields |->
     CASE f \in {"showClientToCandidate", "isPromoted", "isRemote",
                 "isNegotiable"} -> Bool(FALSE)
       [] f = "displayOrder" -> Num(0)
       [] f = "skills" -> Arr(<<>>)
       [] f = "country" -> Str(<<"India">>)
       [] f = "employmentType" -> Str(<<"Full-time">>)
       [] f = "experienceLevel" -> Str(<<"Fresher">>)
       [] f = "numberOfOpenings" -> Num(1)
       [] f = "status" -> Str(<<"active">>)
       [] OTHER -> Str(<<>>)]

PvUnmounted ==
  /\ pvPhase = "unmounted"
  /\ pvData = InitialData
  /\ pvSkillInput = <<>>
  /\ pvReqs = {}
  /\ pvSeq = 0
  /\ pvEvents = 0
  /\ pvToast = Null

\* the state of Login after its first render
LgInitial ==
  /\ lgUsername = <<>>
  /\ lgPassword = <<>>
  /\ lgError = Str(<<>>)
  /\ lgReqs = {}
  /\ lgSeq = 0

AuUnmounted ==
  /\ auPhase = "unmounted"
  /\ auAuth = Null
  /\ auStorage = Null
  /\ auConsole = FALSE
  /\ LgInitial

PagesUnmounted == MvUnmounted /\ ApUnmounted /\ PvUnmounted /\ AuUnmounted

Init == InitComponent /\ cin = <<>> /\ cbase = Url /\ cout = Null /\ PagesUnmounted

SetState(st) ==
  /\ isPDF' = st.isPDF
  /\ loadError' = st.loadError
  /\ docxContent' = st.docxContent
  /\ loadingDocx' = st.loadingDocx
  /\ docxError' = st.docxError

\* A render of the component with props r and state st, and its commit.
\* mounting: the first render of an instance, which schedules every effect.
DoRender(r, st, mounting) ==
  /\ resumeUrl' = r
  /\ view' = ViewOf(r, st)
  /\ deps1' = Deps1(r)
  /\ deps2' = Deps2(r, st)
  /\ pending' = {e \in {1, 2} :
                   \/ mounting
                   \/ e = 1 /\ Deps1(r) # deps1
                   \/ e = 2 /\ Deps2(r, st) # deps2}
  /\ phase' = IF pending' = {} THEN "idle" ELSE "effects"
  /\ iframeNav' = IF ~ViewOf(r, st).iframe THEN FALSE
                  ELSE IF ~view.iframe \/ view.href # ViewOf(r, st).href THEN TRUE
                  ELSE iframeNav

\* The parent renders <ResumeModal resumeUrl={r} .../> for the first time.
Mount(r) ==
  /\ phase = "unmounted"
  /\ changes < MaxChanges
  /\ changes' = changes + 1
  /\ inst' = inst + 1
  /\ SetState(InitialState)
  /\ DoRender(r, InitialState, TRUE)
  /\ nFetch' = 0
  /\ failedRef' = FALSE
  /\ UNCHANGED <<tasks, empties, cin, cbase, cout, pageVars>>

\* The parent stops rendering the component: its state is discarded.
Unmount ==
  /\ phase = "idle"
  /\ phase' = "unmounted"
  /\ SetState(InitialState)
  /\ resumeUrl' = NoPath
  /\ deps1' = <<>>
  /\ deps2' = <<>>
  /\ pending' = {}
  /\ view' = NullView
  /\ iframeNav' = FALSE
  /\ nFetch' = 0
  /\ failedRef' = FALSE
  /\ UNCHANGED <<inst, tasks, changes, empties, cin, cbase, cout, pageVars>>

\* The parent re-renders with the same props.
Rerender ==
  /\ phase = "idle"
  /\ DoRender(resumeUrl, St, FALSE)
  /\ UNCHANGED <<inst, isPDF, loadError, docxContent, loadingDocx, docxError,
                 tasks, changes, nFetch, failedRef, empties, cin, cbase, cout, pageVars>>

\* The parent re-renders with another resumeUrl.
ChangeReference(r) ==
  /\ phase = "idle"
  /\ r # resumeUrl
  /\ changes < MaxChanges
  /\ changes' = changes + 1
  /\ DoRender(r, St, FALSE)
  /\ nFetch' = 0
  /\ failedRef' = FALSE
  /\ UNCHANGED <<inst, isPDF, loadError, docxContent, loadingDocx, docxError,
                 tasks, empties, cin, cbase, cout, pageVars>>

\* The render a state update scheduled.
Render ==
  /\ phase = "render"
  /\ DoRender(resumeUrl, St, FALSE)
  /\ UNCHANGED <<inst, isPDF, loadError, docxContent, loadingDocx, docxError,
                 tasks, changes, nFetch, failedRef, empties, cin, cbase, cout, pageVars>>

\* The passive effects of the last commit, in order, with the values of its
\* render; their state updates are batched.
RunEffects ==
  /\ phase = "effects"
  /\ LET after1 == IF 1 \in pending THEN ClassificationEffect(resumeUrl, St) ELSE St
         fires == 2 \in pending /\ DocxEffectFires(resumeUrl, St)
         after2 == IF fires
                   THEN [after1 EXCEPT !.loadingDocx = TRUE, !.docxError = Null]
                   ELSE after1
     IN /\ SetState(after2)
        /\ tasks' = IF fires THEN tasks \cup {NewTask(resumeUrl)} ELSE tasks
        /\ nFetch' = IF fires THEN nFetch + 1 ELSE nFetch
        /\ phase' = IF after2 # St THEN "render" ELSE "idle"
  /\ pending' = {}
  /\ UNCHANGED <<inst, resumeUrl, deps1, deps2, view, iframeNav, changes,
                 failedRef, empties, cin, cbase, cout, pageVars>>

(***************************************************************************)
(* The promise chain of the DOCX effect (lines 38-56)                      *)
(***************************************************************************)
\* The setters a callback of task t calls act on the instance that started
\* the task; React ignores them once that instance is unmounted.
\* (variant: the setters reach whichever instance is mounted)
LiveAnyInstance(t) == phase # "unmounted"
Live(t) == phase # "unmounted" /\ t.inst = inst

\* The callback of a settled chain applies the state st.
Settle(t, st, failed) ==
  /\ tasks' = tasks \ {t}
  /\ IF Live(t)
     THEN /\ SetState(st)
          /\ phase' = IF st # St THEN "render" ELSE "idle"
          /\ failedRef' = (failedRef \/ (failed /\ t.ref = resumeUrl))
     ELSE UNCHANGED <<isPDF, loadError, docxContent, loadingDocx, docxError,
                      phase, failedRef>>
  /\ UNCHANGED <<inst, resumeUrl, deps1, deps2, pending, view, iframeNav,
                 changes, nFetch, cin, cbase, cout, pageVars>>

\* .then(result => ...), lines 48-51
OnResult(t, value) ==
  [St EXCEPT !.docxContent = Str(value), !.loadingDocx = FALSE]

\* .catch(error => ...), lines 52-56
OnError(t, message) ==
  [St EXCEPT !.docxError = Str(message), !.loadingDocx = FALSE]

\* A conversion may end with an empty result while the bound allows.
MayBeEmpty == empties < MaxEmpty

\* fetch resolves with response.ok, the body is read and handed to mammoth
FetchOk(t) ==
  /\ phase \in {"idle", "unmounted"}
  /\ t.stage = "fetch"
  /\ tasks' = (tasks \ {t}) \cup {[t EXCEPT !.stage = "convert"]}
  /\ UNCHANGED <<phase, inst, resumeUrl, isPDF, loadError, docxContent,
                 loadingDocx, docxError, deps1, deps2, pending, view, iframeNav,
                 changes, nFetch, failedRef, empties, cin, cbase, cout, pageVars>>

\* (variant: response.ok unchecked, the body of the error response goes on to
\* mammoth)
FetchBadStatusContinues(t) == FetchOk(t)

\* fetch resolves with a non-success status: line 41 throws
FetchBadStatus(t) ==
  /\ phase \in {"idle", "unmounted"}
  /\ t.stage = "fetch"
  /\ Settle(t, OnError(t, FailedToFetchMsg), TRUE)
  /\ UNCHANGED empties

\* fetch (or reading the body) rejects
FetchRejects(t) ==
  /\ phase \in {"idle", "unmounted"}
  /\ t.stage = "fetch"
  /\ Settle(t, OnError(t, NetworkMsg), TRUE)
  /\ UNCHANGED empties

\* mammoth.convertToHtml resolves with result.value = value
ConvertOk(t, value) ==
  /\ phase \in {"idle", "unmounted"}
  /\ t.stage = "convert"
  /\ value = <<>> => MayBeEmpty
  /\ Settle(t, OnResult(t, value), FALSE)
  /\ empties' = IF value = <<>> THEN empties + 1 ELSE empties

\* mammoth.convertToHtml rejects with an error whose message is message
ConvertFails(t, message) ==
  /\ phase \in {"idle", "unmounted"}
  /\ t.stage = "convert"
  /\ message = <<>> => MayBeEmpty
  /\ Settle(t, OnError(t, message), TRUE)
  /\ empties' = IF message = <<>> THEN empties + 1 ELSE empties

(***************************************************************************)
(* The iframe's events (lines 60-65 and 111-128)                           *)
(***************************************************************************)
\* (variant: the handler only logs)
HandleIframeErrorLogsOnly(st) == st
\* handleIframeError
HandleIframeError(st) == [st EXCEPT !.isPDF = FALSE, !.loadError = TRUE]

\* (variant: the catch block of onLoad reports a failure too)
IframeLoadCatchFails(content) ==
  /\ phase = "idle"
  /\ view.iframe
  /\ iframeNav
  /\ iframeNav' = FALSE
  /\ LET st == IF content # "clean" THEN HandleIframeError(St) ELSE St
     IN /\ SetState(st)
        /\ phase' = IF st # St THEN "render" ELSE "idle"
  /\ UNCHANGED <<inst, resumeUrl, deps1, deps2, pending, view, tasks, changes,
                 nFetch, failedRef, empties, cin, cbase, cout, pageVars>>

\* onLoad; content: "blocked" (reading contentDocument throws or yields
\* nothing), "clean" (readable, no marker in its text) or "marker" (readable,
\* its text includes '404', 'Not Found' or 'Error')
IframeLoad(content) ==
  /\ phase = "idle"
  /\ view.iframe
  /\ iframeNav
  /\ iframeNav' = FALSE
  /\ LET st == IF content = "marker" THEN HandleIframeError(St) ELSE St
     IN /\ SetState(st)
        /\ phase' = IF st # St THEN "render" ELSE "idle"
  /\ UNCHANGED <<inst, resumeUrl, deps1, deps2, pending, view, tasks, changes,
                 nFetch, failedRef, empties, cin, cbase, cout, pageVars>>

\* onError
IframeError ==
  /\ phase = "idle"
  /\ view.iframe
  /\ iframeNav
  /\ iframeNav' = FALSE
  /\ SetState(HandleIframeError(St))
  /\ phase' = "render"
  /\ UNCHANGED <<inst, resumeUrl, deps1, deps2, pending, view, tasks, changes,
                 nFetch, failedRef, empties, cin, cbase, cout, pageVars>>

(***************************************************************************)
(* The component and its environment                                       *)
(***************************************************************************)
Next ==
  \/ \E r \in Paths \cup {NoPath} : Mount(r)
  \/ Unmount
  \/ Rerender
  \/ \E r \in Paths \cup {NoPath} : ChangeReference(r)
  \/ Render
  \/ RunEffects
  \/ \E t \in tasks : FetchOk(t)
  \/ \E t \in tasks : FetchBadStatus(t)
  \/ \E t \in tasks : FetchRejects(t)
  \/ \E t \in tasks : \E v \in {HtmlOf(t.url), <<>>} : ConvertOk(t, v)
  \/ \E t \in tasks : \E m \in {ConvertMsg, <<>>} : ConvertFails(t, m)
  \/ \E c \in {"blocked", "clean", "marker"} : IframeLoad(c)
  \/ IframeError

Spec == Init /\ [][Next]_vars

(***************************************************************************)
(* The component shown for one convertible reference that does not change  *)
(* while the view stays open, when every started fetch and conversion      *)
(* completes.  The document behind a reference does not change, so a       *)
(* conversion that has given empty HTML gives empty HTML again: here the   *)
(* empty result of convertToHtml is not limited by MaxEmpty.               *)
(***************************************************************************)
\* mammoth.convertToHtml resolves with an empty result.value once more
ConvertOkEmptyAgain(t) ==
  /\ phase \in {"idle", "unmounted"}
  /\ t.stage = "convert"
  /\ ~MayBeEmpty
  /\ Settle(t, OnResult(t, <<>>), FALSE)
  /\ UNCHANGED empties

\* the promise chain of t moves on: the fetch or the conversion completes
Completes(t) ==
  \/ FetchOk(t)
  \/ FetchBadStatus(t)
  \/ FetchRejects(t)
  \/ \E v \in {HtmlOf(t.url), <<>>} : ConvertOk(t, v)
  \/ \E m \in {ConvertMsg, <<>>} : ConvertFails(t, m)
  \/ ConvertOkEmptyAgain(t)

NextLive ==
  \/ \E r \in {DocA, DocB} : Mount(r)
  \/ Rerender
  \/ Render
  \/ RunEffects
  \/ \E t \in tasks : FetchOk(t)
  \/ \E t \in tasks : FetchBadStatus(t)
  \/ \E t \in tasks : FetchRejects(t)
  \/ \E t \in tasks : \E v \in {HtmlOf(t.url), <<>>} : ConvertOk(t, v)
  \/ \E t \in tasks : \E m \in {ConvertMsg, <<>>} : ConvertFails(t, m)
  \/ \E t \in tasks : ConvertOkEmptyAgain(t)

\* React runs a scheduled render and the effects of a commit; every started
\* fetch and conversion completes
SpecLive ==
  /\ Init /\ [][NextLive]_vars
  /\ WF_vars(Render)
  /\ WF_vars(RunEffects)
  /\ WF_vars(\E t \in tasks : Completes(t))

(***************************************************************************)
(* Classification of a path as a function of the path alone: the derived   *)
(* values of lines 13-20 are computed for one input path.                  *)
(***************************************************************************)
\* the strings that read as s when lower-cased
CaseVariants(s) ==
  {v \in [1..Len(s) -> {"p", "d", "f", "o", "c", "x", "P", "D", "F", "O", "C", "X"}] :
     ToLowerCase(v) = s}
Extensions ==
  CaseVariants(PdfExt) \cup CaseVariants(DocxExt) \cup CaseVariants(DocExt)
    \cup {<<"t", "x", "t">>, <<"p", "d", "f", "x">>, <<>>}
RECURSIVE Stems(_)
Stems(n) ==
  IF n = 0 THEN {<<>>}
  ELSE Stems(n - 1) \cup {s \o <<c>> : s \in Stems(n - 1), c \in {"a", "."}}
Directories == {<<>>, <<"d", "/">>, UploadsPrefix}
\* directory, stem, and an extension with or without its dot; never empty
ClassifyInputs ==
  {d \o s \o dot \o e :
     d \in Directories, s \in Stems(MaxStem), dot \in {<<>>, <<".">>}, e \in Extensions}
    \ {<<>>}

\* values of the url prop: a host, a host with a trailing slash, and ''
BaseUrls == {Url, Url \o <<"/">>, <<>>}

Classification(r) ==
  [normalizedUrl |-> NormalizedUrl(r),
   fullResumeUrl |-> FullResumeUrl(cbase, r),
   fileName |-> FileName(r),
   fileExtension |-> FileExtension(r),
   detectedIsPDF |-> DetectedIsPDF(r),
   isDocx |-> IsDocx(r)]

InitClassify ==
  /\ InitComponent /\ cin \in ClassifyInputs /\ cbase \in BaseUrls /\ cout = Null
  /\ PagesUnmounted

Classify ==
  /\ cout = Null
  /\ cout' = Classification(cin)
  /\ UNCHANGED <<compVars, cin, cbase, pageVars>>

NextClassify == Classify

SpecClassify == InitClassify /\ [][NextClassify]_vars

(***************************************************************************)
(* ManageVacancies.  src/unnamed/part_001 holds two files of this page:    *)
(* lines 1-704 (variant 1) and lines 706-1392 (variant 2).  Modelled are   *)
(* the filter, page, selection and delete handlers, the reset-page and     *)
(* fetch effects, and the list and delete requests with their callbacks.   *)
(* A render and the passive effects of its commit are one step.  While     *)
(* loading is set the page renders only 'Loading vacancies...', so the     *)
(* user acts only when it is not set.  The server answers a request when   *)
(* its response is delivered; responses are delivered in any order.        *)
(***************************************************************************)
\* requests the page sends
MaxMvRequests == 4
\* user events on the page
MaxMvEvents == 2
\* pages the user moves to
MaxPage == 2

\* params.append('limit', '20')
Limit == 20
\* the server holds one vacancy more than a page takes
NumVacancies == Limit + 1
VacancyIds == 1..NumVacancies
\* the vacancies the user selects or deletes
ActedOn == {1, NumVacancies}
\* the vacancies that match a filter field set to "x"
MatchX == {1, NumVacancies}

MvFilterFields(variant) ==
  IF variant = 1
  THEN {"search", "industry", "status", "employmentType", "city", "state"}
  ELSE {"search", "industry", "client", "status", "employmentType", "city",
        "state"}
NoFilters(variant) == [f \in MvFilterFields(variant) |-> ""]

\* buildQueryString: the page, the limit and the filter fields that are set
BuildQueryString(page, filters) ==
  [page |-> page, limit |-> Limit,
   set |-> {<<f, filters[f]>> : f \in {g \in DOMAIN filters : filters[g] # ""}}]

\* the server's answer to GET /api/vacancy/list?query while it holds held:
\* the matching vacancies in id order, cut into pages of query.limit
ListResponse(query, held) ==
  LET m == {v \in held : \A c \in query.set : c[2] = "x" => v \in MatchX}
      Rank(v) == Cardinality({u \in m : u <= v})
  IN [data |-> {v \in m : /\ Rank(v) > (query.page - 1) * query.limit
                          /\ Rank(v) <= query.page * query.limit},
      pagination |->
        [currentPage |-> query.page,
         totalPages |-> (Cardinality(m) + query.limit - 1) \div query.limit,
         totalItems |-> Cardinality(m)]]

\* fetchlist of the render whose buildQueryString is query: the GET it sends
Fetchlist(query, origin) ==
  [kind |-> "list", seq |-> mvSeq + 1, query |-> query, ids |-> {},
   last |-> FALSE, origin |-> origin]

InitVacancies ==
  /\ InitComponent /\ cin = <<>> /\ cbase = Url /\ cout = Null
  /\ PvUnmounted /\ AuUnmounted
  /\ mvVariant \in {1, 2}
  /\ mvPhase = "render"
  /\ mvFilters = NoFilters(mvVariant)
  /\ mvPage = 1
  /\ mvPagination = Null
  /\ mvVacancies = {}
  /\ mvSelected = {}
  /\ mvLoading = TRUE
  /\ mvBulkLoading = FALSE
  /\ mvDeps = Null
  /\ mvReqs = {}
  /\ mvSeq = 0
  /\ mvEvents = 0
  /\ mvServer = VacancyIds
  /\ ApUnmounted

\* A render and the effects of its commit: the reset-page effect runs when a
\* filter field differs from the last commit's, the fetch effect when
\* fetchlist (that is, buildQueryString) does; both on mount.  fetchlist is
\* the one of this render: its query holds the page of this render.
MvCommit ==
  /\ mvPhase = "render"
  /\ LET query == BuildQueryString(mvPage, mvFilters)
         resets == mvDeps = Null \/ mvDeps.filters # mvFilters
         fetches == mvDeps = Null \/ mvDeps.query # query
     IN /\ fetches => mvSeq < MaxMvRequests
        /\ mvDeps' = [filters |-> mvFilters, query |-> query]
        /\ mvPage' = IF resets THEN 1 ELSE mvPage
        /\ mvLoading' = (mvLoading \/ fetches)
        /\ mvReqs' = IF fetches THEN mvReqs \cup {Fetchlist(query, "effect")}
                     ELSE mvReqs
        /\ mvSeq' = IF fetches THEN mvSeq + 1 ELSE mvSeq
        /\ mvPhase' = IF mvPage' # mvPage \/ mvLoading' # mvLoading
                      THEN "render" ELSE "idle"
  /\ UNCHANGED <<mvVariant, mvFilters, mvPagination, mvVacancies, mvSelected,
                 mvBulkLoading, mvEvents, mvServer, modalVars, apVars, pvVars, auVars>>

\* the page is rendered with its controls and no render is outstanding
UserCanAct == mvPhase = "idle" /\ ~mvLoading /\ mvEvents < MaxMvEvents

\* handleFilterChange(name, value)
MvHandleFilterChange(name, value) ==
  /\ UserCanAct
  /\ name \in DOMAIN mvFilters
  /\ mvFilters[name] # value
  /\ mvFilters' = [mvFilters EXCEPT ![name] = value]
  /\ mvPhase' = "render"
  /\ mvEvents' = mvEvents + 1
  /\ UNCHANGED <<mvVariant, mvPage, mvPagination, mvVacancies, mvSelected,
                 mvLoading, mvBulkLoading, mvDeps, mvReqs, mvSeq, mvServer,
                 modalVars, apVars, pvVars, auVars>>

\* clearFilters
MvClearFilters ==
  /\ UserCanAct
  /\ mvFilters # NoFilters(mvVariant)
  /\ mvFilters' = NoFilters(mvVariant)
  /\ mvPhase' = "render"
  /\ mvEvents' = mvEvents + 1
  /\ UNCHANGED <<mvVariant, mvPage, mvPagination, mvVacancies, mvSelected,
                 mvLoading, mvBulkLoading, mvDeps, mvReqs, mvSeq, mvServer,
                 modalVars, apVars, pvVars, auVars>>

\* the pagination buttons; step is -1 (Previous) or 1 (Next)
MvPageButton(step) ==
  /\ UserCanAct
  /\ mvPagination # Null
  /\ mvPagination.totalPages > 1
  /\ ~mvBulkLoading
  /\ IF step = 1 THEN mvPage # mvPagination.totalPages /\ mvPage < MaxPage
     ELSE mvPage # 1
  /\ mvPage' = mvPage + step
  /\ mvPhase' = "render"
  /\ mvEvents' = mvEvents + 1
  /\ UNCHANGED <<mvVariant, mvFilters, mvPagination, mvVacancies, mvSelected,
                 mvLoading, mvBulkLoading, mvDeps, mvReqs, mvSeq, mvServer,
                 modalVars, apVars, pvVars, auVars>>

\* toggleSelect(id)
MvToggleSelect(id) ==
  /\ UserCanAct
  /\ id \in mvVacancies \cap ActedOn
  /\ mvSelected' = IF id \in mvSelected THEN mvSelected \ {id}
                   ELSE mvSelected \cup {id}
  /\ mvPhase' = "render"
  /\ mvEvents' = mvEvents + 1
  /\ UNCHANGED <<mvVariant, mvFilters, mvPage, mvPagination, mvVacancies,
                 mvLoading, mvBulkLoading, mvDeps, mvReqs, mvSeq, mvServer,
                 modalVars, apVars, pvVars, auVars>>

\* handleDelete(id), confirmed.  Variant 1 (lines 150-183) removes the vacancy
\* from the list before the request is answered; variant 2 (lines 874-889)
\* removes it when the server reports success.
MvHandleDelete(id) ==
  /\ UserCanAct
  /\ id \in mvVacancies \cap ActedOn
  /\ mvSeq < MaxMvRequests
  /\ mvVacancies' = IF mvVariant = 1 THEN mvVacancies \ {id} ELSE mvVacancies
  /\ mvReqs' = mvReqs \cup
       {[kind |-> "remove", seq |-> mvSeq + 1,
         query |-> BuildQueryString(mvPage, mvFilters), ids |-> {id},
         last |-> /\ mvVariant = 1
                  /\ mvPagination # Null
                  /\ mvPage = mvPagination.totalPages
                  /\ Cardinality(mvVacancies) = 1,
         origin |-> "user"]}
  /\ mvSeq' = mvSeq + 1
  /\ mvPhase' = IF mvVacancies' # mvVacancies THEN "render" ELSE "idle"
  /\ mvEvents' = mvEvents + 1
  /\ UNCHANGED <<mvVariant, mvFilters, mvPage, mvPagination, mvSelected,
                 mvLoading, mvBulkLoading, mvDeps, mvServer, modalVars, apVars, pvVars, auVars>>

\* handleBulkDelete, confirmed (lines 186-227 and 891-919); its button is
\* rendered while a vacancy is selected and enabled while no bulk request is
\* in flight
MvHandleBulkDelete ==
  /\ UserCanAct
  /\ mvSelected # {}
  /\ ~mvBulkLoading
  /\ mvSeq < MaxMvRequests
  /\ mvBulkLoading' = TRUE
  /\ mvVacancies' = mvVacancies \ mvSelected
  /\ mvSelected' = {}
  /\ mvReqs' = mvReqs \cup
       {[kind |-> "bulk", seq |-> mvSeq + 1,
         query |-> BuildQueryString(mvPage, mvFilters), ids |-> mvSelected,
         last |-> FALSE, origin |-> "user"]}
  /\ mvSeq' = mvSeq + 1
  /\ mvPhase' = "render"
  /\ mvEvents' = mvEvents + 1
  /\ UNCHANGED <<mvVariant, mvFilters, mvPage, mvPagination, mvLoading,
                 mvDeps, mvServer, modalVars, apVars, pvVars, auVars>>

\* whether the callback of delete request r calls fetchlist after outcome
Refetches(r, outcome) ==
  IF r.kind = "remove"
  THEN mvVariant = 1 /\ (outcome = "success" => r.last)
  ELSE mvVariant = 1 \/ outcome # "success"

\* The answer to delete request r: "success" (the server has removed r.ids),
\* "unsuccessful" (response.data.success is false) or "error" (the request
\* fails); the server removes nothing in the last two.  fetchlist is the one
\* of the render in which the handler was invoked.
MvDeleteResponse(r, outcome) ==
  /\ mvPhase = "idle"
  /\ r.kind \in {"remove", "bulk"}
  /\ Refetches(r, outcome) => mvSeq < MaxMvRequests
  /\ mvServer' = IF outcome = "success" THEN mvServer \ r.ids ELSE mvServer
  /\ mvVacancies' =
       IF mvVariant = 2 /\ r.kind = "remove" /\ outcome = "success"
       THEN mvVacancies \ r.ids ELSE mvVacancies
  /\ mvBulkLoading' = IF r.kind = "bulk" THEN FALSE ELSE mvBulkLoading
  /\ mvLoading' = (mvLoading \/ Refetches(r, outcome))
  /\ mvReqs' = (mvReqs \ {r}) \cup
       IF Refetches(r, outcome)
       THEN {Fetchlist(r.query,
                       IF outcome = "success" THEN "success" ELSE "revert")}
       ELSE {}
  /\ mvSeq' = IF Refetches(r, outcome) THEN mvSeq + 1 ELSE mvSeq
  /\ mvPhase' = IF <<mvVacancies', mvBulkLoading', mvLoading'>>
                     # <<mvVacancies, mvBulkLoading, mvLoading>>
                THEN "render" ELSE "idle"
  /\ UNCHANGED <<mvVariant, mvFilters, mvPage, mvPagination, mvSelected,
                 mvDeps, mvEvents, modalVars, apVars, pvVars, auVars>>

\* the list request r is answered with success: true (lines 92-96, 826-829)
MvListOk(r) ==
  /\ mvPhase = "idle"
  /\ r.kind = "list"
  /\ LET response == ListResponse(r.query, mvServer)
     IN /\ mvVacancies' = response.data
        /\ mvPagination' = response.pagination
  /\ mvSelected' = {}
  /\ mvLoading' = FALSE
  /\ mvReqs' = mvReqs \ {r}
  /\ mvPhase' = "render"
  /\ UNCHANGED <<mvVariant, mvFilters, mvPage, mvBulkLoading, mvDeps, mvSeq,
                 mvEvents, mvServer, modalVars, apVars, pvVars, auVars>>

\* the list request r is answered with success: false, or fails
MvListFails(r) ==
  /\ mvPhase = "idle"
  /\ r.kind = "list"
  /\ mvLoading' = FALSE
  /\ mvReqs' = mvReqs \ {r}
  /\ mvPhase' = IF mvLoading THEN "render" ELSE "idle"
  /\ UNCHANGED <<mvVariant, mvFilters, mvPage, mvPagination, mvVacancies,
                 mvSelected, mvBulkLoading, mvDeps, mvSeq, mvEvents, mvServer,
                 modalVars, apVars, pvVars, auVars>>

NextVacancies ==
  \/ MvCommit
  \/ \E name \in MvFilterFields(2) : \E value \in {"", "x"} :
       MvHandleFilterChange(name, value)
  \/ MvClearFilters
  \/ \E step \in {-1, 1} : MvPageButton(step)
  \/ \E id \in VacancyIds : MvToggleSelect(id)
  \/ \E id \in VacancyIds : MvHandleDelete(id)
  \/ MvHandleBulkDelete
  \/ \E r \in mvReqs : \E outcome \in {"success", "unsuccessful", "error"} :
       MvDeleteResponse(r, outcome)
  \/ \E r \in mvReqs : MvListOk(r)
  \/ \E r \in mvReqs : MvListFails(r)

SpecVacancies == InitVacancies /\ [][NextVacancies]_vars

(***************************************************************************)
(* Applicants (src/src/pages/Applicants/Applicants.jsx).  Modelled are the *)
(* view toggle, the filter controls, the page buttons, the reset-page and  *)
(* fetch effects, and the two list requests with their callbacks.  A       *)
(* render and the passive effects of its commit are one step.  In the      *)
(* applications view the page renders only 'Loading applications...'       *)
(* while loading is set.                                                   *)
(***************************************************************************)
\* list requests the page sends
MaxApRequests == 4
\* user events on the page
MaxApEvents == 2

\* itemsPerPage: 10
ItemsPerPage == 10
\* the server holds one entry more than a page takes
NumEntries == ItemsPerPage + 1
EntryIds == 1..NumEntries
\* the entries that match a filter field, or a search text, set to "x"
ApMatchX == {1, NumEntries}

ApFilterFields ==
  {"jobId", "status", "search", "city", "state", "degree", "minCgpa",
   "appliedDateFrom", "appliedDateTo", "sortBy", "sortOrder"}
\* the values a control of the field offers
ApValues(field) ==
  IF field = "sortBy" THEN {"appliedAt", "createdAt"}
  ELSE IF field = "sortOrder" THEN {"desc", "asc"}
  ELSE {"", "x"}
\* the sortBy default of a view
DefaultSortBy(viewMode) ==
  IF viewMode = "applications" THEN "appliedAt" ELSE "createdAt"
DefaultFilter(viewMode) ==
  [f \in ApFilterFields |->
     IF f = "sortBy" THEN DefaultSortBy(viewMode)
     ELSE IF f = "sortOrder" THEN "desc" ELSE ""]

\* the filter fields fetchApplications and fetchCandidates put in the query
QueryFields(viewMode) ==
  IF viewMode = "applications"
  THEN {"jobId", "status", "city", "state", "degree", "minCgpa",
        "appliedDateFrom", "appliedDateTo", "sortBy", "sortOrder"}
  ELSE {"city", "state", "degree", "minCgpa", "sortBy", "sortOrder"}
\* the fields in the dependency array of the reset-page effect, line 312
ResetDepFields ==
  {"jobId", "status", "search", "city", "state", "degree", "minCgpa",
   "appliedDateFrom", "appliedDateTo"}
\* the fields in the dependency array of the fetch effect, line 322
FetchDepFields ==
  {"jobId", "status", "city", "state", "degree", "minCgpa", "appliedDateFrom",
   "appliedDateTo", "sortBy", "sortOrder"}
Restrict(f, fields) == [x \in fields |-> f[x]]

\* the query string of fetchApplications / fetchCandidates
ApQuery(viewMode, pagination, filter) ==
  [page |-> pagination.currentPage, limit |-> pagination.itemsPerPage,
   set |-> {<<f, filter[f]>> :
              f \in {g \in QueryFields(viewMode) : filter[g] # ""}}]

\* the GET fetchApplications / fetchCandidates of a render sends
ApRequest(viewMode, pagination, filter) ==
  [kind |-> viewMode, seq |-> apSeq + 1,
   query |-> ApQuery(viewMode, pagination, filter),
   search |-> filter["search"]]

\* the server's answer to a list query: the matching entries, in the order
\* asked for, cut into pages of query.limit
ApListResponse(query) ==
  LET m == {v \in EntryIds :
              \A c \in query.set :
                (c[1] \notin {"sortBy", "sortOrder"} /\ c[2] = "x")
                  => v \in ApMatchX}
      Rank(v) == IF <<"sortOrder", "asc">> \in query.set
                 THEN Cardinality({u \in m : u <= v})
                 ELSE Cardinality({u \in m : u >= v})
  IN [data |-> {v \in m : /\ Rank(v) > (query.page - 1) * query.limit
                          /\ Rank(v) <= query.page * query.limit},
      pagination |->
        [currentPage |-> query.page,
         totalPages |-> (Cardinality(m) + query.limit - 1) \div query.limit,
         itemsPerPage |-> query.limit]]

\* the client-side search of lines 107-116 and 165-172
SearchFilter(data, search) ==
  IF search # "" THEN data \cap ApMatchX ELSE data

InitApplicants ==
  /\ InitComponent /\ cin = <<>> /\ cbase = Url /\ cout = Null
  /\ PvUnmounted /\ AuUnmounted
  /\ MvUnmounted
  /\ apPhase = "render"
  /\ apViewMode = "applications"
  /\ apFilter = DefaultFilter("applications")
  /\ apPagination = [currentPage |-> 1, totalPages |-> 1,
                     itemsPerPage |-> ItemsPerPage]
  /\ apApplications = {}
  /\ apCandidates = {}
  /\ apLoading = TRUE
  /\ apDeps = Null
  /\ apReqs = {}
  /\ apSeq = 0
  /\ apEvents = 0
  /\ apLastSent = Null

ApResetDeps == <<Restrict(apFilter, ResetDepFields), apViewMode>>
ApFetchDeps ==
  <<apViewMode, Restrict(apFilter, FetchDepFields), apPagination.currentPage>>

\* A render and the effects of its commit (lines 304-322), each run on mount
\* and when its dependency array differs from the last commit's.  The fetch
\* effect calls the fetch function of this render.
ApCommit ==
  /\ apPhase = "render"
  /\ LET resets == apDeps = Null \/ apDeps.reset # ApResetDeps
         fetches == apDeps = Null \/ apDeps.fetch # ApFetchDeps
         sortBy == apFilter["sortBy"]
         request == ApRequest(apViewMode, apPagination, apFilter)
     IN /\ fetches => apSeq < MaxApRequests
        /\ apDeps' = [reset |-> ApResetDeps, fetch |-> ApFetchDeps]
        /\ apPagination' = IF resets THEN [apPagination EXCEPT !.currentPage = 1]
                           ELSE apPagination
        /\ apFilter' =
             IF resets /\ apViewMode = "applications" /\ sortBy = "createdAt"
             THEN [apFilter EXCEPT !["sortBy"] = "appliedAt"]
             ELSE IF resets /\ apViewMode = "candidates" /\ sortBy = "appliedAt"
             THEN [apFilter EXCEPT !["sortBy"] = "createdAt"]
             ELSE apFilter
        /\ apLoading' = (apLoading \/ fetches)
        /\ apReqs' = IF fetches THEN apReqs \cup {request} ELSE apReqs
        /\ apSeq' = IF fetches THEN apSeq + 1 ELSE apSeq
        /\ apLastSent' = IF fetches THEN request ELSE apLastSent
        /\ apPhase' = IF <<apPagination', apFilter', apLoading'>>
                          # <<apPagination, apFilter, apLoading>>
                      THEN "render" ELSE "idle"
  /\ UNCHANGED <<apViewMode, apApplications, apCandidates, apEvents,
                 modalVars, mvVars, pvVars, auVars>>

\* the page is rendered with its controls and no render is outstanding
ApUserCanAct ==
  /\ apPhase = "idle"
  /\ ~(apLoading /\ apViewMode = "applications")
  /\ apEvents < MaxApEvents

\* onChange of a filter control: setFilter({...filter, [field]: value}); the
\* job, status and date controls are rendered in the applications view only
ApSetFilter(field, value) ==
  /\ ApUserCanAct
  /\ field \in {"jobId", "status", "appliedDateFrom", "appliedDateTo"}
       => apViewMode = "applications"
  /\ apFilter[field] # value
  /\ apFilter' = [apFilter EXCEPT ![field] = value]
  /\ apPhase' = "render"
  /\ apEvents' = apEvents + 1
  /\ UNCHANGED <<apViewMode, apPagination, apApplications, apCandidates,
                 apLoading, apDeps, apReqs, apSeq, apLastSent, modalVars,
                 mvVars, pvVars, auVars>>

\* clearFilters, lines 287-301
ApClearFilters ==
  /\ ApUserCanAct
  /\ apFilter # DefaultFilter(apViewMode)
  /\ apFilter' = DefaultFilter(apViewMode)
  /\ apPhase' = "render"
  /\ apEvents' = apEvents + 1
  /\ UNCHANGED <<apViewMode, apPagination, apApplications, apCandidates,
                 apLoading, apDeps, apReqs, apSeq, apLastSent, modalVars,
                 mvVars, pvVars, auVars>>

\* the view toggle, lines 414-425
ApSetViewMode(viewMode) ==
  /\ ApUserCanAct
  /\ apViewMode # viewMode
  /\ apViewMode' = viewMode
  /\ apPhase' = "render"
  /\ apEvents' = apEvents + 1
  /\ UNCHANGED <<apFilter, apPagination, apApplications, apCandidates,
                 apLoading, apDeps, apReqs, apSeq, apLastSent, modalVars,
                 mvVars, pvVars, auVars>>

\* the pagination buttons; step is -1 (Previous) or 1 (Next)
ApPageButton(step) ==
  /\ ApUserCanAct
  /\ apPagination.totalPages > 1
  /\ ~apLoading
  /\ IF step = 1 THEN apPagination.currentPage # apPagination.totalPages
     ELSE apPagination.currentPage # 1
  /\ apPagination' =
       [apPagination EXCEPT !.currentPage = apPagination.currentPage + step]
  /\ apPhase' = "render"
  /\ apEvents' = apEvents + 1
  /\ UNCHANGED <<apViewMode, apFilter, apApplications, apCandidates,
                 apLoading, apDeps, apReqs, apSeq, apLastSent, modalVars,
                 mvVars, pvVars, auVars>>

\* the list request r is answered with success: true (lines 103-125 and
\* 161-179): the search text of the render that sent it is applied
ApListOk(r) ==
  /\ apPhase = "idle"
  /\ LET response == ApListResponse(r.query)
         shown == SearchFilter(response.data, r.search)
     IN /\ apApplications' = IF r.kind = "applications" THEN shown
                             ELSE apApplications
        /\ apCandidates' = IF r.kind = "candidates" THEN shown
                           ELSE apCandidates
        /\ apPagination' = response.pagination
  /\ apLoading' = FALSE
  /\ apReqs' = apReqs \ {r}
  /\ apPhase' = "render"
  /\ UNCHANGED <<apViewMode, apFilter, apDeps, apSeq, apEvents, apLastSent,
                 modalVars, mvVars, pvVars, auVars>>

\* the list request r is answered with success: false, or fails
ApListFails(r) ==
  /\ apPhase = "idle"
  /\ apLoading' = FALSE
  /\ apReqs' = apReqs \ {r}
  /\ apPhase' = IF apLoading THEN "render" ELSE "idle"
  /\ UNCHANGED <<apViewMode, apFilter, apPagination, apApplications,
                 apCandidates, apDeps, apSeq, apEvents, apLastSent, modalVars,
                 mvVars, pvVars, auVars>>

NextApplicants ==
  \/ ApCommit
  \/ \E field \in ApFilterFields : \E value \in ApValues(field) :
       ApSetFilter(field, value)
  \/ ApClearFilters
  \/ \E viewMode \in {"applications", "candidates"} : ApSetViewMode(viewMode)
  \/ \E step \in {-1, 1} : ApPageButton(step)
  \/ \E r \in apReqs : ApListOk(r)
  \/ \E r \in apReqs : ApListFails(r)

SpecApplicants == InitApplicants /\ [][NextApplicants]_vars

(***************************************************************************)
(* PostVacancy (src/src/pages/PostVacancy/PostVacancy.jsx): the form, its  *)
(* handlers and the submission.  The page is mounted and its state is      *)
(* changed by event handlers and by the continuation of the POST request;  *)
(* each of them is followed by the render that commits the new state.  The *)
(* body of the request is left out: nothing of the page depends on it.     *)
(***************************************************************************)
\* user events (changes of inputs, skill buttons) in one behaviour
MaxPvEvents == 4
\* submissions in one behaviour
MaxPvRequests == 2

\* JavaScript truthiness
IsTruthy(v) ==
  CASE v.t = "boolean" -> v.b
    [] v.t = "number" -> v.n # 0
    [] v.t = "string" -> v.s # <<>>
    [] v.t = "array" -> TRUE
    [] OTHER -> FALSE

\* a || b
Or(a, b) == IF IsTruthy(a) THEN a ELSE b

\* String.prototype.trim
RECURSIVE Trim(_)
Trim(s) ==
  IF s # <<>> /\ Head(s) = " " THEN Trim(Tail(s))
  ELSE IF s # <<>> /\ s[Len(s)] = " " THEN Trim(SubSeq(s, 1, Len(s) - 1))
  ELSE s

\* the object the reset passes to setData; a property it does not have reads
\* as undefined
ResetData ==
  [f \in DataFields |->
     CASE f \in {"showClientToCandidate", "isRemote", "isNegotiable"} -> Bool(FALSE)
       [] f = "skills" -> Arr(<<>>)
       [] f = "country" -> Str(<<"India">>)
       [] f = "employmentType" -> Str(<<"Full-time">>)
       [] f = "experienceLevel" -> Str(<<"Fresher">>)
       [] f = "numberOfOpenings" -> Num(1)
       [] f = "status" -> Str(<<"active">>)
       [] f \in {"isPromoted", "displayOrder"} -> Undefined
       [] OTHER -> Str(<<>>)]

\* the values the input called name can report: a checkbox its toggled
\* state, a number input a string of digits, a select one of its options
PvValues(name) ==
  CASE name \in {"showClientToCandidate", "isPromoted", "isRemote",
                 "isNegotiable"} -> {Bool(~IsTruthy(pvData[name]))}
    [] name \in {"displayOrder", "salaryMin", "salaryMax", "numberOfOpenings"} ->
         {Str(<<>>), Str(<<"5">>)}
    [] name = "employmentType" -> {Str(<<"Full-time">>), Str(<<"Part-time">>)}
    [] name = "experienceLevel" -> {Str(<<"Fresher">>), Str(<<"2-5 years">>)}
    [] name = "status" -> {Str(<<"active">>), Str(<<"draft">>)}
    [] OTHER -> {Str(<<>>), Str(<<"x">>)}
\* response.data.message, error.response?.data?.message
PvMessages == {Undefined, Str(<<"m">>)}

InitPostVacancy ==
  /\ InitComponent /\ cin = <<>> /\ cbase = Url /\ cout = Null
  /\ MvUnmounted /\ ApUnmounted /\ AuUnmounted
  /\ pvPhase = "idle"
  /\ pvData = InitialData
  /\ pvSkillInput = <<>>
  /\ pvReqs = {}
  /\ pvSeq = 0
  /\ pvEvents = 0
  /\ pvToast = Null

\* onChangeHandler of the input called name; the display order input is
\* rendered only while data.isPromoted is truthy
PvOnChangeHandler(name, value) ==
  /\ pvPhase = "idle" /\ pvEvents < MaxPvEvents
  /\ name = "displayOrder" => IsTruthy(pvData["isPromoted"])
  /\ value # pvData[name]
  /\ pvData' = [pvData EXCEPT ![name] = value]
  /\ pvEvents' = pvEvents + 1
  /\ UNCHANGED <<pvPhase, pvSkillInput, pvReqs, pvSeq, pvToast, modalVars,
                 mvVars, apVars, auVars>>

\* onChange of the skill input
PvSetSkillInput(value) ==
  /\ pvPhase = "idle" /\ pvEvents < MaxPvEvents
  /\ value # pvSkillInput
  /\ pvSkillInput' = value
  /\ pvEvents' = pvEvents + 1
  /\ UNCHANGED <<pvPhase, pvData, pvReqs, pvSeq, pvToast, modalVars, mvVars,
                 apVars, auVars>>

\* addSkill (the Add button, or Enter in the skill input)
PvAddSkill ==
  /\ pvPhase = "idle" /\ pvEvents < MaxPvEvents
  /\ LET skill == Trim(pvSkillInput)
         skills == pvData["skills"].a
     IN IF skill # <<>> /\ ~\E i \in 1..Len(skills) : skills[i] = skill
        THEN /\ pvData' = [pvData EXCEPT !["skills"] = Arr(Append(skills, skill))]
             /\ pvSkillInput' = <<>>
        ELSE UNCHANGED <<pvData, pvSkillInput>>
  /\ pvEvents' = pvEvents + 1
  /\ UNCHANGED <<pvPhase, pvReqs, pvSeq, pvToast, modalVars, mvVars, apVars,
                 auVars>>

\* removeSkill(index) of the skill shown at index
PvRemoveSkill(index) ==
  /\ pvPhase = "idle" /\ pvEvents < MaxPvEvents
  /\ index \in 1..Len(pvData["skills"].a)
  /\ LET skills == pvData["skills"].a
     IN pvData' = [pvData EXCEPT !["skills"] =
                     Arr(SubSeq(skills, 1, index - 1)
                         \o SubSeq(skills, index + 1, Len(skills)))]
  /\ pvEvents' = pvEvents + 1
  /\ UNCHANGED <<pvPhase, pvSkillInput, pvReqs, pvSeq, pvToast, modalVars,
                 mvVars, apVars, auVars>>

\* onSubmitHandler up to its await; the browser submits the form only when
\* the inputs with the required attribute have a value
PvOnSubmitHandler ==
  /\ pvPhase = "idle"
  /\ pvSeq < MaxPvRequests
  /\ \A name \in {"jobTitle", "description", "qualification", "employmentType",
                  "experienceLevel"} : IsTruthy(pvData[name])
  /\ pvReqs' = pvReqs \cup {[seq |-> pvSeq + 1]}
  /\ pvSeq' = pvSeq + 1
  /\ UNCHANGED <<pvPhase, pvData, pvSkillInput, pvEvents, pvToast, modalVars,
                 mvVars, apVars, auVars>>

\* the response has success true: the form is reset
PvSubmitOk(r, message) ==
  /\ r \in pvReqs
  /\ pvReqs' = pvReqs \ {r}
  /\ pvData' = ResetData
  /\ pvSkillInput' = <<>>
  /\ pvToast' = [kind |-> "success", text |-> message]
  /\ UNCHANGED <<pvPhase, pvSeq, pvEvents, modalVars, mvVars, apVars, auVars>>

\* the response has a falsy success
PvSubmitUnsuccessful(r, message) ==
  /\ r \in pvReqs
  /\ pvReqs' = pvReqs \ {r}
  /\ pvToast' = [kind |-> "error",
                 text |-> Or(message, Str(<<"Failed to post vacancy">>))]
  /\ UNCHANGED <<pvPhase, pvData, pvSkillInput, pvSeq, pvEvents, modalVars,
                 mvVars, apVars, auVars>>

\* the request is rejected
PvSubmitError(r, message) ==
  /\ r \in pvReqs
  /\ pvReqs' = pvReqs \ {r}
  /\ pvToast' = [kind |-> "error",
                 text |-> Or(message, Str(<<"Error posting vacancy">>))]
  /\ UNCHANGED <<pvPhase, pvData, pvSkillInput, pvSeq, pvEvents, modalVars,
                 mvVars, apVars, auVars>>

NextPostVacancy ==
  \/ \E name \in DataFields \ {"skills", "country"} :
       \E value \in PvValues(name) : PvOnChangeHandler(name, value)
  \/ \E value \in {<<>>, <<"x">>, <<" ", "x">>, <<" ">>} : PvSetSkillInput(value)
  \/ PvAddSkill
  \/ \E index \in 1..Len(pvData["skills"].a) : PvRemoveSkill(index)
  \/ PvOnSubmitHandler
  \/ \E r \in pvReqs : \E message \in PvMessages : PvSubmitOk(r, message)
  \/ \E r \in pvReqs : \E message \in PvMessages : PvSubmitUnsuccessful(r, message)
  \/ \E r \in pvReqs : \E message \in PvMessages : PvSubmitError(r, message)

SpecPostVacancy == InitPostVacancy /\ [][NextPostVacancy]_vars

(***************************************************************************)
(* AuthProvider (src/src/context/AuthContext.js) and Login                 *)
(* (src/src/pages/Login/Login.jsx).  The provider is mounted first (the    *)
(* useState initializer, then the mount effect); Login is rendered inside  *)
(* it.  A call of setAuth or setError is followed by the render that       *)
(* commits it, so an action shows the state after that render.             *)
(***************************************************************************)
\* submissions of the login form in one behaviour
MaxLgRequests == 2

TokenA == <<"a", ".", "b", ".", "c">>
TokenB == <<"d", ".", "e", ".", "f">>
NullWord == <<"n", "u", "l", "l">>
UndefinedWord == <<"u", "n", "d", "e", "f", "i", "n", "e", "d">>

\* what localStorage can hold under 'token' when the application starts:
\* nothing, a token, a token of two parts, one with an empty part, 'null'
StoredTokens ==
  {Null, Str(TokenA), Str(<<"a", ".", "b">>), Str(<<"a", ".", ".", "c">>),
   Str(NullWord)}
\* response.data.token of a login response
ResponseTokens ==
  {Str(TokenA), Str(TokenB), Str(<<"a", ".", "b">>),
   Str(<<"a", ".", "b", ".", "c", ".", "d">>), Str(<<"a", ".", ".", "c">>),
   Str(NullWord), Str(UndefinedWord), Str(<<>>), Undefined, Null, Num(1)}

\* isValidToken with the test of the parts reduced to their number
IsValidTokenAnyParts(token) ==
  IF \/ ~IsTruthy(token)
     \/ (token.t = "string" /\ token.s = NullWord)
     \/ (token.t = "string" /\ token.s = UndefinedWord)
     \/ token.t # "string"
  THEN FALSE
  ELSE Len(Split(token.s, ".")) = 3

IsValidToken(token) ==
  IF \/ ~IsTruthy(token)
     \/ (token.t = "string" /\ token.s = NullWord)
     \/ (token.t = "string" /\ token.s = UndefinedWord)
     \/ token.t # "string"
  THEN FALSE
  ELSE LET parts == Split(token.s, ".")
       IN Len(parts) = 3 /\ \A i \in 1..Len(parts) : Len(parts[i]) > 0

\* the object { token }
Auth(token) == [t |-> "object", token |-> token]

InitAuth ==
  /\ InitComponent /\ cin = <<>> /\ cbase = Url /\ cout = Null
  /\ MvUnmounted /\ ApUnmounted /\ PvUnmounted
  /\ auPhase = "unmounted"
  /\ auAuth = Null
  /\ auStorage \in StoredTokens
  /\ auConsole = FALSE
  /\ LgInitial

\* the first render of AuthProvider: the initializer of the auth state
AuMount ==
  /\ auPhase = "unmounted"
  /\ auPhase' = "effects"
  /\ LET token == auStorage
     IN IF IsTruthy(token) /\ IsValidToken(token)
        THEN auAuth' = Auth(token) /\ auStorage' = auStorage
        ELSE IF IsTruthy(token) /\ ~IsValidToken(token)
             THEN auStorage' = Null /\ auAuth' = Null
             ELSE auAuth' = Null /\ auStorage' = auStorage
  /\ UNCHANGED <<auConsole, lgUsername, lgPassword, lgError, lgReqs, lgSeq,
                 pvVars, modalVars, mvVars, apVars>>

\* the mount effect
AuMountEffect ==
  /\ auPhase = "effects"
  /\ auPhase' = "idle"
  /\ LET token == auStorage
     IN IF IsTruthy(token) /\ IsValidToken(token)
        THEN auAuth' = Auth(token) /\ auStorage' = auStorage
        ELSE IF IsTruthy(token)
             THEN auStorage' = Null /\ auAuth' = Null
             ELSE UNCHANGED <<auAuth, auStorage>>
  /\ UNCHANGED <<auConsole, lgUsername, lgPassword, lgError, lgReqs, lgSeq,
                 pvVars, modalVars, mvVars, apVars>>

\* login with an invalid token leaving the session as it is
loginKeepsSession(token) ==
  IF IsValidToken(token)
  THEN /\ auStorage' = token
       /\ auAuth' = Auth(token)
       /\ auConsole' = auConsole
  ELSE /\ auConsole' = TRUE
       /\ UNCHANGED <<auStorage, auAuth>>

login(token) ==
  IF IsValidToken(token)
  THEN /\ auStorage' = token
       /\ auAuth' = Auth(token)
       /\ auConsole' = auConsole
  ELSE /\ auConsole' = TRUE
       /\ auStorage' = Null
       /\ auAuth' = Null

\* a consumer of the context calls logout()
logout ==
  /\ auPhase = "idle"
  /\ auStorage' = Null
  /\ auAuth' = Null
  /\ UNCHANGED <<auPhase, auConsole, lgUsername, lgPassword, lgError, lgReqs,
                 lgSeq, pvVars, modalVars, mvVars, apVars>>

\* response.data.message, err.response?.data?.message
LgMessages == {Undefined, Str(<<"m">>)}

LgSetUsername(value) ==
  /\ auPhase = "idle"
  /\ value # lgUsername
  /\ lgUsername' = value
  /\ UNCHANGED <<lgPassword, lgError, lgReqs, lgSeq, auPhase, auAuth, auStorage,
                 auConsole, pvVars, modalVars, mvVars, apVars>>

LgSetPassword(value) ==
  /\ auPhase = "idle"
  /\ value # lgPassword
  /\ lgPassword' = value
  /\ UNCHANGED <<lgUsername, lgError, lgReqs, lgSeq, auPhase, auAuth, auStorage,
                 auConsole, pvVars, modalVars, mvVars, apVars>>

\* handleSubmit up to its await; both inputs are required
LgHandleSubmit ==
  /\ auPhase = "idle"
  /\ lgSeq < MaxLgRequests
  /\ lgUsername # <<>> /\ lgPassword # <<>>
  /\ lgError' = Str(<<>>)
  /\ lgReqs' = lgReqs \cup {[seq |-> lgSeq + 1, username |-> lgUsername,
                             password |-> lgPassword]}
  /\ lgSeq' = lgSeq + 1
  /\ UNCHANGED <<lgUsername, lgPassword, auPhase, auAuth, auStorage, auConsole,
                 pvVars, modalVars, mvVars, apVars>>

\* the response has success true
LgSubmitOk(r, token) ==
  /\ r \in lgReqs
  /\ lgReqs' = lgReqs \ {r}
  /\ login(token)
  /\ UNCHANGED <<auPhase, lgUsername, lgPassword, lgError, lgSeq, pvVars,
                 modalVars, mvVars, apVars>>

\* the response has a falsy success
LgSubmitUnsuccessful(r, message) ==
  /\ r \in lgReqs
  /\ lgReqs' = lgReqs \ {r}
  /\ lgError' = Or(message, Str(<<"Login failed">>))
  /\ UNCHANGED <<lgUsername, lgPassword, lgSeq, auPhase, auAuth, auStorage,
                 auConsole, pvVars, modalVars, mvVars, apVars>>

\* the request is rejected; errMessage is err.message
LgSubmitError(r, message, errMessage) ==
  /\ r \in lgReqs
  /\ lgReqs' = lgReqs \ {r}
  /\ lgError' = Or(Or(message, errMessage), Str(<<"Server error">>))
  /\ UNCHANGED <<lgUsername, lgPassword, lgSeq, auPhase, auAuth, auStorage,
                 auConsole, pvVars, modalVars, mvVars, apVars>>

NextAuth ==
  \/ AuMount
  \/ AuMountEffect
  \/ logout
  \/ \E value \in {<<>>, <<"u">>} : LgSetUsername(value)
  \/ \E value \in {<<>>, <<"u">>} : LgSetPassword(value)
  \/ LgHandleSubmit
  \/ \E r \in lgReqs : \E token \in ResponseTokens : LgSubmitOk(r, token)
  \/ \E r \in lgReqs : \E message \in LgMessages : LgSubmitUnsuccessful(r, message)
  \/ \E r \in lgReqs : \E message \in LgMessages :
       \E errMessage \in {Str(<<>>), Str(<<"Network Error">>)} :
         LgSubmitError(r, message, errMessage)

SpecAuth == InitAuth /\ [][NextAuth]_vars

(***************************************************************************)
(* Properties                                                              *)
(***************************************************************************)
\* the promise chain t settles in this step (its callback runs)
Settled(t) ==
  t \in tasks /\ t \notin tasks' /\ Cardinality(tasks') < Cardinality(tasks)
\* this step starts a fetch
FetchStarted == \E t \in tasks' \ tasks : t.stage = "fetch"
\* t was started by the mounted instance for a reference that is no longer current
Stale(t) == phase # "unmounted" /\ t.inst = inst /\ t.ref # resumeUrl

\* C1: when the task started for an earlier reference A settles after the
\* reference has changed to a convertible reference B, its result is not
\* applied: the converted content, the error message and the loading flag
\* stay as they are.
C1_StaleResultNotApplied ==
  [][\A t \in tasks :
       (Settled(t) /\ Stale(t) /\ IsDocx(resumeUrl))
         => UNCHANGED <<docxContent, docxError, loadingDocx>>]_vars

\* C2: for a reference that never changes during the life of the instance, at
\* most one fetch is started, whatever the fetch and the conversion yield.
C2_AtMostOneFetchPerReference ==
  (phase # "unmounted" /\ inst = 1 /\ changes = 1) => nFetch <= 1

\* C3: no two tasks of the instance for the same resolved URL are in flight
\* at the same time.
C3_NoTwoTasksForOneUrl ==
  \A t, u \in tasks : (t.inst = u.inst /\ t.url = u.url) => t = u

\* C4: once an attempt for the current reference has ended in failure, no
\* fetch is started while the reference stays unchanged and the view stays open.
C4_NoRetryAfterFailure ==
  [][(failedRef /\ failedRef') => ~FetchStarted]_vars

\* the body panels of a committed tree that are visible
Panels(v) == {p \in {"iframe", "html", "errorPanel", "unsupported"} : v[p]}

\* C5 as stated: in every rendered state exactly one of the four body panels
\* (PDF iframe, converted HTML, conversion-error panel, unsupported-format
\* panel) is visible.
C5_ExactlyOnePanel == view.rendered => Cardinality(Panels(view)) = 1

\* C5 as amended: in every rendered state at most one of the four body panels
\* is visible; none is visible only for a convertible reference whose DOCX
\* preview container shows the loading indicator or is empty, and the loading
\* indicator is never shown beside a panel.
C5_AtMostOnePanel ==
  view.rendered =>
    /\ Cardinality(Panels(view)) <= 1
    /\ Panels(view) = {} => IsDocx(resumeUrl)
    /\ view.loading => Panels(view) = {}

\* a conversion is loading right after a reference change: no panel is visible
C5_Witness ==
  /\ view.rendered
  /\ changes = 2
  /\ view.loading
  /\ Panels(view) = {}

\* the part of a path after its last "/"
LastSegmentOf(r) ==
  LET slashes == {i \in 1..Len(r) : r[i] = "/"}
  IN IF slashes = {} THEN r
     ELSE SubSeq(r, (CHOOSE i \in slashes : \A j \in slashes : j <= i) + 1, Len(r))

\* C6 as stated: every rendered state has a download link to the resolved URL
\* of the current reference, named by the last path segment of the reference.
C6_DownloadLinkLastSegment ==
  resumeUrl # NoPath =>
    /\ view.rendered /\ view.link
    /\ view.href = FullResumeUrl(Url, resumeUrl)
    /\ view.download = LastSegmentOf(resumeUrl)

\* C6 as amended: every rendered state has a download link to the resolved URL
\* of the current reference, named by the last path segment of the reference,
\* or 'resume' when that segment is empty.
C6_DownloadLinkAlways ==
  resumeUrl # NoPath =>
    /\ view.rendered /\ view.link
    /\ view.href = Url \o <<"/">> \o
         (IF StartsWith(resumeUrl, UploadsPrefix) THEN resumeUrl
          ELSE UploadsPrefix \o resumeUrl)
    /\ view.download = IF LastSegmentOf(resumeUrl) = <<>> THEN ResumeName
                       ELSE LastSegmentOf(resumeUrl)

\* the PDF failed to load and the fallback panel is committed, with the link
C6_Witness ==
  /\ phase = "idle"
  /\ loadError
  /\ view.unsupported
  /\ view.link
  /\ view.download = <<"c", ".", "p", "d", "f">>

\* what the current props and state show
Preview ==
  LET v == ViewOf(resumeUrl, St)
  IN [iframe |-> v.iframe, html |-> v.html, errorPanel |-> v.errorPanel,
      unsupported |-> v.unsupported, text |-> v.text]

\* the committed preview is final for the reference: the verified or failed
\* PDF, the converted document, the conversion error, or the unsupported panel
Terminal ==
  /\ phase = "idle"
  /\ view.rendered
  /\ \/ view.iframe /\ DetectedIsPDF(resumeUrl) /\ ~iframeNav
     \/ view.html
     \/ view.errorPanel
     \/ view.unsupported

\* C7: once the preview of a reference is terminal it does not change while
\* the reference stays the same.
C7_TerminalStateStable ==
  [][(Terminal /\ resumeUrl' = resumeUrl /\ phase' # "unmounted")
       => Preview' = Preview]_vars

\* C8: the iframe is never committed for a reference whose extension is not
\* pdf, and no fetch is started while the committed tree shows the iframe for
\* such a reference.
C8_PanelMatchesClassification ==
  [][/\ view'.iframe => DetectedIsPDF(resumeUrl')
     /\ FetchStarted => ~(view.iframe /\ ~DetectedIsPDF(resumeUrl))]_vars

\* s ends with suffix, compared without regard to letter case
EndsWithAnyCase(s, suffix) ==
  /\ Len(s) >= Len(suffix)
  /\ \A i \in 1..Len(suffix) :
       ToLowerChar(s[Len(s) - Len(suffix) + i]) = ToLowerChar(suffix[i])
HasDot(s) == \E i \in 1..Len(s) : s[i] = "."

\* C9: a path whose final segment ends in .pdf, in any letter case, is
\* classified native-renderable; one whose final segment ends in .docx or
\* .doc, in any letter case, is classified convertible.
C9_ClassifiesByExtension ==
  cout # Null =>
    /\ EndsWithAnyCase(LastSegmentOf(cin), <<".", "p", "d", "f">>)
         => cout.detectedIsPDF /\ ~cout.isDocx
    /\ (\/ EndsWithAnyCase(LastSegmentOf(cin), <<".", "d", "o", "c", "x">>)
        \/ EndsWithAnyCase(LastSegmentOf(cin), <<".", "d", "o", "c">>))
         => cout.isDocx /\ ~cout.detectedIsPDF

\* a path under a directory whose name ends in .Docx with a capital letter
\* has been classified convertible
C9_Witness ==
  /\ cout # Null
  /\ cin = <<"d", "/", "a", ".", "D", "o", "c", "x">>
  /\ cout.isDocx

\* C10: a path whose final segment has no dot has an empty fileExtension and
\* is unsupported; a path whose final segment has another extension than pdf,
\* docx or doc is unsupported.
C10_OtherExtensionsUnsupported ==
  cout # Null =>
    /\ ~HasDot(LastSegmentOf(cin))
         => cout.fileExtension = <<>> /\ ~cout.detectedIsPDF /\ ~cout.isDocx
    /\ (/\ HasDot(LastSegmentOf(cin))
        /\ ~EndsWithAnyCase(LastSegmentOf(cin), <<".", "p", "d", "f">>)
        /\ ~EndsWithAnyCase(LastSegmentOf(cin), <<".", "d", "o", "c", "x">>)
        /\ ~EndsWithAnyCase(LastSegmentOf(cin), <<".", "d", "o", "c">>))
         => ~cout.detectedIsPDF /\ ~cout.isDocx

\* s begins with prefix
BeginsWith(s, prefix) ==
  Len(s) >= Len(prefix) /\ \A i \in 1..Len(prefix) : s[i] = prefix[i]

\* C11: the resolved URL of a non-empty path p under base URL b is b/p when p
\* begins with 'uploads/' and b/uploads/p otherwise; the normalized path of a
\* path that begins with 'uploads/' is the path itself, and normalizing a
\* normalized path changes nothing.
C11_ResolvedUrl ==
  cout # Null =>
    /\ cout.fullResumeUrl =
         IF BeginsWith(cin, UploadsPrefix) THEN cbase \o <<"/">> \o cin
         ELSE cbase \o <<"/">> \o UploadsPrefix \o cin
    /\ BeginsWith(cin, UploadsPrefix) => cout.normalizedUrl = cin
    /\ NormalizedUrl(cout.normalizedUrl) = cout.normalizedUrl

\* a path that carries the storage prefix has been resolved under base 'h'
C11_Witness ==
  /\ cout # Null
  /\ cbase = <<"h">>
  /\ cin = UploadsPrefix \o <<"a", ".", "d", "o", "c", "x">>
  /\ cout.fullResumeUrl = <<"h", "/">> \o cin

\* C12: when the fetch of the current convertible reference answers with a
\* non-success status, mammoth is not invoked for it, and what the component
\* shows next is the error panel (not the loading indicator, not converted
\* content) with the thrown message and a download link to the resolved URL.
C12_BadStatusShowsError ==
  [][\A t \in tasks :
       (FetchBadStatus(t) /\ Live(t) /\ t.ref = resumeUrl) =>
         LET v == ViewOf(resumeUrl', St')
         IN /\ \A u \in tasks' : u.stage = "convert" => u \in tasks
            /\ ~loadingDocx'
            /\ v.errorPanel /\ ~v.loading /\ ~v.html
            /\ v.text = Str(FailedToFetchMsg)
            /\ v.link /\ v.href = FullResumeUrl(Url, t.ref)]_vars

\* the error panel of a failed fetch is committed, its only fetch never
\* having reached the conversion
C12_Witness ==
  /\ phase = "idle"
  /\ nFetch = 1
  /\ tasks = {}
  /\ view.errorPanel
  /\ view.text = Str(FailedToFetchMsg)
  /\ view.href = FullResumeUrl(Url, resumeUrl)

\* C13: when the conversion of the current reference fails with an error,
\* what the component shows next is the error panel holding the error's
\* message, whatever the message is, the empty message included.
C13_ConvertErrorShown ==
  [][\A t \in tasks : \A m \in {ConvertMsg, <<>>} :
       (ConvertFails(t, m) /\ Live(t) /\ t.ref = resumeUrl) =>
         LET v == ViewOf(resumeUrl', St')
         IN v.errorPanel /\ v.text = Str(m)]_vars

\* the preview of reference r is marked failed in state st
FailedPreviewOf(r, st) ==
  /\ r # NoPath
  /\ st.loadError
  /\ ~IframeShown(st)
  /\ UnsupportedShown(r, st)
FailedPreview == FailedPreviewOf(resumeUrl, St)

\* C14: when the iframe of a reference finishes loading with readable content
\* that holds a not-found or error marker, the preview is marked failed (no
\* iframe, the unsupported panel instead), and a preview marked failed stays so
\* while the reference is the same; once committed, the view shows it.
C14_MarkerReclassifiesAsFailed ==
  [][/\ IframeLoad("marker")
          => (DetectedIsPDF(resumeUrl) /\ FailedPreviewOf(resumeUrl', St'))
     /\ (FailedPreview /\ 1 \notin pending /\ resumeUrl' = resumeUrl
           /\ phase' # "unmounted")
          => /\ FailedPreviewOf(resumeUrl', St')
             /\ phase' = "idle" => (view'.unsupported /\ ~view'.iframe)]_vars

\* the unsupported panel of a PDF whose iframe reported a failure is committed
C14_Witness ==
  /\ phase = "idle"
  /\ resumeUrl = PdfC
  /\ FailedPreview
  /\ ~isPDF
  /\ ~iframeNav
  /\ view.unsupported
  /\ ~view.iframe

\* C15: when the iframe finishes loading and its content cannot be read, no
\* state of the preview changes: isPDF is still true, loadError still false,
\* the iframe is still shown and no render is scheduled.
C15_BlockedLoadChangesNothing ==
  [][IframeLoad("blocked") =>
       /\ UNCHANGED <<isPDF, loadError, docxContent, loadingDocx, docxError>>
       /\ isPDF' /\ ~loadError'
       /\ view' = view /\ view'.iframe
       /\ phase' = "idle"]_vars

\* the iframe of a PDF has finished loading and is still shown
C15_Witness ==
  /\ phase = "idle"
  /\ resumeUrl = PdfC
  /\ ~iframeNav
  /\ view.iframe
  /\ isPDF /\ ~loadError

\* C16: while the path is absent the component renders nothing and starts no
\* fetch, and no step taken while it is absent changes the preview state.
C16_AbsentPathInert ==
  [][(phase' # "unmounted" /\ resumeUrl' = NoPath) =>
       /\ view' = NullView
       /\ ~FetchStarted
       /\ phase = "unmounted" => St' = InitialState
       /\ (phase # "unmounted" /\ resumeUrl = NoPath) => St' = St]_vars

\* the instance that started t has been unmounted
Dismissed(t) == t.inst # inst \/ phase = "unmounted"

CurrentQuery == BuildQueryString(mvPage, mvFilters)
\* the handler of delete request r removed r.ids from the list beforehand
Optimistic(r) == r.kind = "bulk" \/ (r.kind = "remove" /\ mvVariant = 1)

\* C18: when the request of an optimistic delete fails or is answered as
\* unsuccessful, a list request is sent, and when that list request is
\* answered with success, no other list request being left to answer, the
\* displayed list holds every vacancy the server lists for the page and
\* filters the page is then showing.
C18_FailedDeleteRefetches ==
  [][/\ \A r \in mvReqs : \A outcome \in {"unsuccessful", "error"} :
          (Optimistic(r) /\ MvDeleteResponse(r, outcome)) =>
            \E u \in mvReqs' \ mvReqs : u.kind = "list" /\ u.origin = "revert"
     /\ \A r \in mvReqs :
          (r.origin = "revert" /\ MvListOk(r)
             /\ \A u \in mvReqs' : u.kind # "list") =>
            ListResponse(CurrentQuery', mvServer').data \subseteq mvVacancies']_vars

\* C19: the commit that follows a change of a filter field sets the page to 1,
\* and a response of a list request of the fetch effect is displayed only if
\* the request carried the page and the filters the page is showing (page 1
\* and the new filters after a filter change), or while the request that
\* carries them is still to be answered.
C19_FilterChangeRefetchesPageOne ==
  [][/\ (MvCommit /\ mvDeps # Null /\ mvDeps.filters # mvFilters) => mvPage' = 1
     /\ \A r \in mvReqs :
          (r.origin = "effect" /\ MvListOk(r)) =>
            \/ r.query = CurrentQuery
            \/ \E u \in mvReqs' : u.kind = "list" /\ u.query = CurrentQuery]_vars

\* the list of the current view
DisplayedList ==
  IF apViewMode = "applications" THEN apApplications ELSE apCandidates

\* C20: once a change of the page number or of a filter field, the search
\* text included, has been rendered and its effects have run, the list request
\* sent last is the one of the current view with the current page, filter
\* fields and search text (checked while a list is displayed).
C20_ChangeRefetchesList ==
  (apPhase = "idle" /\ apLastSent # Null /\ DisplayedList # {}) =>
    /\ apLastSent.kind = apViewMode
    /\ apLastSent.query = ApQuery(apViewMode, apPagination, apFilter)
    /\ apLastSent.search = apFilter["search"]

(***************************************************************************)
(* C21: in PostVacancy, the continuation of a submission the server        *)
(* reports as successful leaves every property of the form data (isPromoted,*)
(* displayOrder and skills included) and the skill input equal to their    *)
(* initial values; the continuation of an unsuccessful or failed           *)
(* submission leaves the form data unchanged.                              *)
(***************************************************************************)
C21_FormResetAfterSubmit ==
  [][\A r \in pvReqs : \A message \in PvMessages :
       /\ PvSubmitOk(r, message) =>
            /\ \A f \in DataFields : pvData'[f] = InitialData[f]
            /\ pvSkillInput' = <<>>
       /\ (PvSubmitUnsuccessful(r, message) \/ PvSubmitError(r, message)) =>
            pvData' = pvData]_vars

\* v is a string of exactly three non-empty parts separated by dots, other
\* than 'null' and 'undefined'
ValidFormat(v) ==
  /\ v.t = "string"
  /\ v.s \notin {NullWord, UndefinedWord}
  /\ LET dots == {i \in 1..Len(v.s) : v.s[i] = "."}
     IN /\ Cardinality(dots) = 2
        /\ 1 \notin dots /\ Len(v.s) \notin dots
        /\ \A i \in dots : i + 1 \notin dots

(***************************************************************************)
(* C22: in AuthProvider, once it is initialized and after any sequence of  *)
(* login(token) and logout() calls, auth is non-null only if auth.token    *)
(* has the valid format, the token stored under 'token' in localStorage    *)
(* equals auth.token when auth is non-null, and no token is stored when    *)
(* auth is null.                                                           *)
(***************************************************************************)
C22_SessionMatchesStorage ==
  auPhase # "unmounted" =>
    /\ auAuth # Null => (ValidFormat(auAuth.token) /\ auStorage = auAuth.token)
    /\ auAuth = Null => auStorage = Null

\* a session established by the second login of the behaviour
C22_Witness ==
  /\ auPhase = "idle" /\ lgSeq = 2 /\ lgReqs = {}
  /\ auAuth = Auth(Str(TokenB)) /\ auStorage = Str(TokenB)

(***************************************************************************)
(* C23: in AuthProvider, login(token) with a token of invalid format       *)
(* leaves auth null and no token stored, whether or not a valid session    *)
(* existed before the call.                                                *)
(***************************************************************************)
C23_InvalidLoginClearsSession ==
  [][\A r \in lgReqs : \A token \in ResponseTokens :
       (LgSubmitOk(r, token) /\ ~ValidFormat(token)) =>
         (auAuth' = Null /\ auStorage' = Null)]_vars

\* login has rejected a token and has left no session
C23_Witness ==
  /\ auPhase = "idle" /\ auConsole /\ lgSeq = 2 /\ lgReqs = {}
  /\ auAuth = Null /\ auStorage = Null

(***************************************************************************)
(* C24: in Login, after every completed submit exactly one of two outcomes *)
(* holds: a session is established (auth is non-null), or a non-empty      *)
(* error message is displayed; a response with success true never ends     *)
(* with neither of them.                                                   *)
(***************************************************************************)
C24_SessionOrError ==
  [][(\E r \in lgReqs : r \notin lgReqs') =>
       ((auAuth' # Null) # (lgError'.s # <<>>))]_vars

(***************************************************************************)
(* C25: in ResumeModal, the loading indicator (loadingDocx) follows the    *)
(* fetch-and-convert task of the current reference: the completion of a    *)
(* task started for an earlier reference does not switch it off while the  *)
(* current reference's task is still pending, and once a commit and its    *)
(* effects are done it is not on when no task of the mounted component is  *)
(* pending.                                                                *)
(***************************************************************************)
C25_LoadingFollowsCurrentTask ==
  [][/\ \A t \in tasks :
          (/\ Settled(t) /\ Live(t) /\ t.ref # resumeUrl
           /\ loadingDocx
           /\ \E u \in tasks' : Live(u) /\ u.ref = resumeUrl) => loadingDocx'
     /\ (phase' = "idle" /\ \A t \in tasks' : t.inst # inst') => ~loadingDocx']_vars

\* the loading indicator is off and the converted HTML or the error panel is
\* shown
Settles == ~loadingDocx /\ phase = "idle" /\ (view.html \/ view.errorPanel)

(***************************************************************************)
(* C26: in ResumeModal, for a convertible reference that stays unchanged   *)
(* while the view stays open, when every started fetch and conversion      *)
(* completes, the component eventually reaches a state with the loading    *)
(* indicator off that shows the converted HTML or the error panel, and     *)
(* stays in it, whatever the conversion results are (empty HTML and an     *)
(* error with an empty message included).                                  *)
(***************************************************************************)
C26_EventuallySettles ==
  <>[](phase # "unmounted" /\ IsDocx(resumeUrl)) => <>[]Settles

====
